---- MODULE Spec2Model ----
(***************************************************************************)
(* The "retrieve -> generate -> log -> poll -> aggregate" orchestration of *)
(* the quotient-cookbooks notebooks, one state machine for the six         *)
(* examples:                                                               *)
(*   tavily   cookbooks/search/tavily/tavily-quotient-detections.ipynb     *)
(*   exa_oai  cookbooks/search/exa/exa-oai-quotient-detections.ipynb       *)
(*   exa      exa-quotient-detections.ipynb        (src/unnamed/part_002)  *)
(*   linkup   cookbooks/search/linkup/linkup-quotient-detections.ipynb     *)
(*   qdrant   qdrant-quotient-detections.ipynb     (src/unnamed/part_003)  *)
(*   agent    exa-quotient-agent.ipynb (the LangGraph research agent)      *)
(* Every call to an external service (search provider, LLM, quotient.log,  *)
(* quotient.poll_for_detection) either returns or raises; which one is the *)
(* environment's choice.  Python floats are modelled as exact fractions.   *)
(*                                                                         *)
(* Three more specifications stand beside the notebooks' Spec:             *)
(*   NormSpec      the code that normalizes provider results into          *)
(*                 documents, applied to every shape of provider response; *)
(*   ScriptSpec    training_demos/.../scripts/generate_training_data.sh;   *)
(*   PollLoopSpec  the polling loop one statement of its try body at a     *)
(*                 time, each of which can raise into the except clause.   *)
(***************************************************************************)
EXTENDS Integers, Sequences, FiniteSets, TLC

\* Bounds of the model.
MaxQueries == 3
MaxDocs == 2
MaxTurns == 2

Examples == {"tavily", "exa_oai", "exa", "linkup", "qdrant", "agent"}

VARIABLES
    example,                  \* which notebook runs
    num_queries,              \* len(queries[:num_results]) / len(companies) / len(questions)
    i,                        \* 1-based position of the batch loop
    pc,                       \* the next call of the run
    qstate,                   \* what happened to each query of the batch so far
    submit_calls,             \* number of quotient.log calls made
    log_ids,                  \* the notebook's log_ids list
    log_records,              \* the records quotient.log has sent, in order
    errors_printed,           \* queries whose failure the notebook caught and printed
    last_message,             \* agent: kind of state["messages"][-1]
    turns,                    \* agent: call_model invocations of the current run (saturating)
    formatted_docs,           \* agent: documents parsed out of the tool messages (saturating)
    result,                   \* linkup: what get_company_info returned last
    p,                        \* 1-based position of the polling loop in log_ids
    hallucination_detections, \* the notebook's list of has_hallucination values
    doc_relevancy_detections, \* the notebook's list of relevance ratios (or None)
    poll_log,                 \* what poll_for_detection did for each polled id
    detection,                \* polling loop, statement by statement: the detection held
    report,                   \* the three print statements that end the polling cell
    normalizer,               \* normalization: which piece of normalization code runs
    provider_response,        \* normalization: the provider's response it is given
    normalized,               \* normalization: what it returned or raised
    argv,                     \* run script: "$@", each argument a sequence of words
    cwd,                      \* run script: the working directory
    script_pc,                \* run script: the next command
    python_calls,             \* run script: the argument lists main.py was started with
    exit_code                 \* run script: $? of the last command

normalization_vars == <<normalizer, provider_response, normalized>>
script_vars == <<argv, cwd, script_pc, python_calls, exit_code>>
other_vars == <<normalization_vars, script_vars>>

vars == <<example, num_queries, i, pc, qstate, submit_calls, log_ids, log_records,
          errors_printed,
          last_message, turns, formatted_docs, result, p, hallucination_detections,
          doc_relevancy_detections, poll_log, detection, report, normalization_vars,
          script_vars>>

submission_vars == <<i, qstate, submit_calls, log_ids, log_records, errors_printed,
                     last_message, turns, formatted_docs, result>>
agent_vars == <<last_message, turns, formatted_docs>>
polling_vars == <<p, hallucination_detections, doc_relevancy_detections, poll_log,
                  detection, report>>
batch_vars == <<example, num_queries, pc, submission_vars, polling_vars>>

----------------------------------------------------------------------------
\* Helpers.

Min(a, b) == IF a < b THEN a ELSE b

RECURSIVE GCD(_, _)
GCD(a, b) == IF b = 0 THEN a ELSE GCD(b, a % b)

\* An exact fraction in lowest terms; stands for the Python float num/den.
Frac(n, d) == LET g == GCD(n, d) IN [num |-> n \div g, den |-> d \div g]
AddFrac(a, b) == Frac(a.num * b.den + b.num * a.den, a.den * b.den)

\* Sequences over S of length at most n.
SeqsUpTo(S, n) == UNION {[1..k -> S] : k \in 0..n}

\* "{x*100:.2f}": the value as hundredths of a percent, rounded half to even.
Percent2f(f) ==
    LET n == f.num * 10000
        q == n \div f.den
        r == n % f.den
    IN  IF 2 * r < f.den THEN q
        ELSE IF 2 * r > f.den THEN q + 1
        ELSE IF q % 2 = 0 THEN q ELSE q + 1

----------------------------------------------------------------------------
\* The shape of each example's batch loop.

\* exa_oai and qdrant call an LLM between retrieval and quotient.log.
HasGenerateStep(e) == e \in {"exa_oai", "qdrant"}

\* get_company_info wraps the Linkup call in try/except and returns an error record.
CatchesProviderFailure(e) == e = "linkup"

\* Only the agent notebook wraps quotient.log in try/except.
CatchesSubmitFailure(e) == e = "agent"

\* generate_answer (qdrant) drops the id quotient.log returns.
KeepsLogIds(e) == e # "qdrant"

\* The qdrant notebook has no polling cell.
HasPollCell(e) == e # "qdrant"
PollingExamples == {e \in Examples : HasPollCell(e)}

\* A loop body that logs before it has retrieved anything.
FirstStep_SubmitsFirst(e) == "submit"

\* The first call of an iteration of the batch loop.
FirstStep(e) == IF e = "agent" THEN "agent" ELSE "retrieve"

\* The state of a query of the batch.
InProgress == {"retrieved", "generated", "agent_running"}
Finished == {"submitted", "provider_failed", "submit_failed", "no_documents"}
QStates == {"pending"} \cup InProgress \cup Finished

\* get_company_info: the Linkup call inside try/except Exception.  It returns the
\* answer with its sources, or a record of the error and the two arguments.
get_company_info(company_name, country, call_returns) ==
    IF call_returns
    THEN [answer |-> company_name, sources |-> company_name]
    ELSE [error |-> "str(e)", company_name |-> company_name, country |-> country]

\* The variable result before the first call.
NoResult == [unset |-> TRUE]

\* A loop that polls for the detection of a query before it goes on to the next.
LoopNext_WaitsForDetection(e, k, n) == "poll"

\* for ... in queries: the loop goes on with the next element or falls off the end.
LoopNext(e, k, n) == IF k + 1 > n THEN "loop_done" ELSE FirstStep(e)

----------------------------------------------------------------------------
\* The polling cell's arithmetic.

\* What a detection's document says under doc.get('is_relevant').
DocFlags == {"True", "False", "None"}

\* sum(1 for doc in docs if doc.get('is_relevant') is True)
RECURSIVE RelevantCount(_)
RelevantCount(docs) ==
    IF docs = <<>> THEN 0
    ELSE (IF Head(docs) = "True" THEN 1 ELSE 0) + RelevantCount(Tail(docs))

\* Python's None, and a float, as entries of doc_relevancy_detections.
PyNone == [none |-> TRUE, val |-> Frac(0, 1)]
PyFloat(f) == [none |-> FALSE, val |-> f]

\* sum(...) / len(docs) if docs else None
RelevancyEntry(docs) ==
    IF Len(docs) > 0 THEN PyFloat(Frac(RelevantCount(docs), Len(docs))) ELSE PyNone

\* A set of notebooks in which only the tavily loop guards the division.
GuardsZeroDocs_OnlyTavily(e) == e = "tavily"

\* The polling loops whose relevancy line ends with "if docs else None".
GuardsZeroDocs(e) == e \in {"tavily", "exa_oai", "exa", "linkup", "agent"}

\* doc_relevancy_detections.append(...) of example e on the list d: the entry is
\* appended, or the division by len(docs) raises before anything is appended.
RelevancyLine(e, d, docs) ==
    IF Len(docs) = 0 /\ ~GuardsZeroDocs(e)
    THEN [raised |-> "ZeroDivisionError", list |-> d]
    ELSE [raised |-> "none", list |-> Append(d, RelevancyEntry(docs))]

\* sum(hallucination_detections): True counts 1, False counts 0.
RECURSIVE SumBools(_)
SumBools(h) ==
    IF h = <<>> THEN 0 ELSE (IF Head(h) THEN 1 ELSE 0) + SumBools(Tail(h))

\* sum(doc_relevancy_detections) over entries that are all floats.
RECURSIVE SumFloats(_)
SumFloats(d) ==
    IF d = <<>> THEN Frac(0, 1) ELSE AddFrac(Head(d).val, SumFloats(Tail(d)))

\* What a print statement of the polling cell does: it prints a value, raises, or
\* is never reached because an earlier statement of the cell raised.
Printed(f) == [kind |-> "value", val |-> f, pct |-> Percent2f(f)]
Raised(e) == [kind |-> e, val |-> Frac(0, 1), pct |-> 0]
NotRun == Raised("not_run")
NotReached == Raised("not_reached")

\* An aggregation that prints 0 for an empty list instead of raising.
HallucinationRate_ZeroWhenEmpty(h) ==
    IF Len(h) = 0 THEN Printed(Frac(0, 1))
    ELSE Printed(Frac(SumBools(h), Len(h)))

\* print(f"... {sum(hallucination_detections)/len(hallucination_detections)*100:.2f}%")
HallucinationRate(h) ==
    IF Len(h) = 0 THEN Raised("ZeroDivisionError")
    ELSE Printed(Frac(SumBools(h), Len(h)))

\* print(f"... {sum(doc_relevancy_detections)/len(doc_relevancy_detections)*100:.2f}%")
\* sum() is evaluated first and raises on the first None it meets.
AverageRelevance(d) ==
    IF \E k \in 1..Len(d) : d[k].none THEN Raised("TypeError")
    ELSE IF Len(d) = 0 THEN Raised("ZeroDivisionError")
    ELSE LET s == SumFloats(d) IN Printed(Frac(s.num, s.den * Len(d)))

\* An aggregation that divides by the number of polled ids instead of the number
\* of collected detections.
PollingCellReport_OverLogIds(ids, h, d) ==
    [printed |-> TRUE,
     results |-> Len(ids),
     hallucination |-> IF Len(ids) = 0 THEN Raised("ZeroDivisionError")
                       ELSE Printed(Frac(SumBools(h), Len(ids))),
     relevance |-> NotReached]

\* The three prints in order; a raising print ends the cell.
PollingCellReport(ids, h, d) ==
    LET hr == HallucinationRate(h) IN
    [printed |-> TRUE,
     results |-> Len(ids),
     hallucination |-> hr,
     relevance |-> IF hr.kind = "value" THEN AverageRelevance(d) ELSE NotReached]

\* A handler that records a failed poll as "no hallucination" / "no relevant document".
ExceptContinueHallucination_AppendsFalse(h) == Append(h, FALSE)
ExceptContinueRelevancy_AppendsZero(d) == Append(d, PyFloat(Frac(0, 1)))

\* except: continue -- the iteration of a poll that raised leaves the lists alone.
ExceptContinueHallucination(h) == h
ExceptContinueRelevancy(d) == d

\* What quotient.poll_for_detection(log_id=id) can do.
Detections ==
    [kind : {"ok"}, has_hallucination : BOOLEAN, log_documents : SeqsUpTo(DocFlags, MaxDocs)]
PollFailures ==
    [kind : {"timeout", "error"}, has_hallucination : {FALSE}, log_documents : {<<>>}]
PollOutcomes == Detections \cup PollFailures

\* The variable detection outside an iteration of the polling loop.
NoDetection == [unset |-> TRUE]

----------------------------------------------------------------------------
\* The agent graph.

\* A conditional edge that takes the wrong branch.
should_continue_Inverted(msg) == IF msg = "ai_tool_calls" THEN "END" ELSE "tools"

\* return "tools" if last_message.tool_calls else END
should_continue(msg) == IF msg = "ai_tool_calls" THEN "tools" ELSE "END"

----------------------------------------------------------------------------
\* Document normalization: the code that turns a provider's results into the
\* documents handed to quotient.log.  A result (a citation's __dict__, a crawl
\* result, a Document's metadata, the text of a StringPromptValue) is modelled as
\* the set of fields it has.

MaxResults == 2

Normalizers == {"format_citations", "crawl_and_process_docs",
                "retrieve_web_content", "parse_string_prompt_value"}

\* The fields each piece of code reads from a result.
ExpectedFields(n) ==
    CASE n = "format_citations" -> {"text", "url", "title", "author", "publishedDate"}
      [] n = "crawl_and_process_docs" -> {"raw_content", "url"}
      [] n = "retrieve_web_content" -> {"highlights", "url"}
      [] n = "parse_string_prompt_value" -> {"url", "highlights"}

\* A value taken from the provider's field k, and a literal of the code.
ValueOf(k) == [from |-> "provider", is |-> k]
Literal(str) == [from |-> "code", is |-> str]

\* d.get(k, default)
DictGet(d, k, default) == IF k \in d THEN ValueOf(k) ELSE Literal(default)

\* re.search(tag, match): group(1) if the tag is in the text, else the default.
GroupOrDefault(match, tag, default) == IF tag \in match THEN ValueOf(tag) ELSE Literal(default)

\* What a piece of normalization code does: it returns documents or raises.
Documents(docs) == [kind |-> "documents", docs |-> docs, key |-> "", at |-> 0]
KeyError(k, idx) == [kind |-> "KeyError", docs |-> <<>>, key |-> k, at |-> idx]
NotNormalized == [kind |-> "pending", docs |-> <<>>, key |-> "", at |-> 0]

\* The list comprehension over response.citations (exa.answer).
format_citations(citations) ==
    Documents([k \in 1..Len(citations) |->
        [page_content |-> DictGet(citations[k], "text", ""),
         source |-> DictGet(citations[k], "url", ""),
         title |-> DictGet(citations[k], "title", ""),
         author |-> DictGet(citations[k], "author", ""),
         published_date |-> DictGet(citations[k], "publishedDate", "")]])

\* The first d[k] lookup of the crawl loop that fails, in evaluation order:
\* result["raw_content"], result["url"], response["base_url"], result by result.
RECURSIVE FirstCrawlKeyError(_, _, _)
FirstCrawlKeyError(results, has_base_url, k) ==
    IF k > Len(results) THEN Documents(<<>>)
    ELSE IF "raw_content" \notin results[k] THEN KeyError("raw_content", k)
    ELSE IF "url" \notin results[k] THEN KeyError("url", k)
    ELSE IF ~has_base_url THEN KeyError("base_url", k)
    ELSE FirstCrawlKeyError(results, has_base_url, k + 1)

\* crawl_and_process_docs: one Document per result, built with direct indexing.
crawl_and_process_docs(response) ==
    LET err == FirstCrawlKeyError(response.results, response.base_url, 1)
    IN  IF err.kind = "KeyError" THEN err
        ELSE Documents([k \in 1..Len(response.results) |->
                [page_content |-> ValueOf("raw_content"),
                 source |-> ValueOf("url"),
                 base_url |-> ValueOf("base_url")]])

\* retrieve_web_content: document_chain.map() over the retriever's documents;
\* highlights has a default, url is looked up with metadata["url"].
retrieve_web_content(documents) ==
    LET bad == {k \in 1..Len(documents) : "url" \notin documents[k]}
    IN  IF bad # {}
        THEN KeyError("url", CHOOSE k \in bad : \A j \in bad : k <= j)
        ELSE Documents([k \in 1..Len(documents) |->
                [highlights |-> DictGet(documents[k], "highlights", "No highlights"),
                 url |-> ValueOf("url")]])

\* parse_string_prompt_value: one document per StringPromptValue found in the text.
parse_string_prompt_value(matches) ==
    Documents([k \in 1..Len(matches) |->
        [page_content |-> ValueOf("match"),
         url |-> GroupOrDefault(matches[k], "url", "No URL"),
         highlights |-> GroupOrDefault(matches[k], "highlights", "[]")]])

\* No normalization is under way.
NormalizationIdle ==
    /\ normalizer = "none"
    /\ provider_response = [results |-> <<>>, base_url |-> TRUE]
    /\ normalized = NotNormalized

----------------------------------------------------------------------------
\* scripts/generate_training_data.sh: cd to the project root, then
\*   if [ $# -gt 0 ]; then uv run python main.py "$@"; else uv run python main.py; fi
\* The script has no "set -e" and no command after the if statement.

MaxArgs == 2

\* A command-line argument is a sequence of words: <<>> is the empty string "",
\* <<"w", "w">> an argument with a space in it.
ScriptArgs == {<<>>, <<"w">>, <<"w", "w">>}
ExitCodes == {0, 1, 2}

RECURSIVE SplitWords(_)
\* An unquoted $@: every argument is split at its spaces, an empty one vanishes.
SplitWords(args) ==
    IF args = <<>> THEN <<>>
    ELSE [k \in 1..Len(Head(args)) |-> <<Head(args)[k]>>] \o SplitWords(Tail(args))

\* A script that passes $@ without the quotes.
QuotedAt_Unquoted(args) == SplitWords(args)

\* "$@": every positional parameter as one word, as it was given.
QuotedAt(args) == args

ScriptIdle ==
    /\ argv = <<>>
    /\ cwd = "caller"
    /\ script_pc = "not_started"
    /\ python_calls = <<>>
    /\ exit_code = 0

----------------------------------------------------------------------------
Init ==
    /\ example \in Examples
    /\ num_queries \in 0..MaxQueries
    /\ i = 1
    /\ pc = IF num_queries = 0 THEN "loop_done" ELSE FirstStep(example)
    /\ qstate = [k \in 1..num_queries |-> "pending"]
    /\ submit_calls = 0
    /\ log_ids = <<>>
    /\ log_records = <<>>
    /\ errors_printed = {}
    /\ last_message = "human"
    /\ turns = 0
    /\ formatted_docs = 0
    /\ result = NoResult
    /\ p = 1
    /\ hallucination_detections = <<>>
    /\ doc_relevancy_detections = <<>>
    /\ poll_log = <<>>
    /\ detection = NoDetection
    /\ report = [printed |-> FALSE, results |-> 0,
                 hallucination |-> NotRun, relevance |-> NotRun]
    /\ NormalizationIdle
    /\ ScriptIdle

\* The iteration of query i ends with status st and the loop goes on.
Continue(st) ==
    /\ qstate' = [qstate EXCEPT ![i] = st]
    /\ i' = i + 1
    /\ pc' = LoopNext(example, i, num_queries)
    /\ last_message' = "human"
    /\ turns' = 0
    /\ formatted_docs' = 0

\* An exception nothing catches ends the cell in the iteration of query i.
Abort(st) ==
    /\ qstate' = [qstate EXCEPT ![i] = st]
    /\ pc' = "aborted"
    /\ UNCHANGED <<i, last_message, turns, formatted_docs>>

\* tags=... of the quotient.log call: the qdrant chain tags the time of the call,
\* the agent loop the model and the query's position; the others pass no tags.
Tags(e, q) ==
    CASE e = "qdrant" -> [timestamp |-> q]
      [] e = "agent" -> [model |-> "claude-3-7-sonnet-20250219", thread_id |-> q]
      [] OTHER -> [no_tags |-> TRUE]

\* The arguments of the quotient.log call of query q: the query, the answer made
\* for it, the documents collected for it, the tags.
LogRecord(e, q) ==
    [user_query |-> q, model_output |-> q, documents |-> q, tags |-> Tags(e, q)]

\* A client that sends the record of a query in place of the one before it.
SendRecord_ReplacesLast(records, rec) ==
    IF records = <<>> THEN <<rec>> ELSE [records EXCEPT ![Len(records)] = rec]

\* quotient.log(...): one new record is sent; the records sent before stay as sent.
SendRecord(records, rec) == Append(records, rec)

\* A loop body that appends the id twice.
AppendLogId_Twice(ids, id) == Append(Append(ids, id), id)

\* log_ids.append(log_id)
AppendLogId(ids, id) == Append(ids, id)

\* A loop that starts the next query's retrieval as soon as this one's returned,
\* before the query was submitted.
Retrieve_StartsNextEarly ==
    /\ pc = "retrieve"
    /\ qstate' = [qstate EXCEPT ![i] = "retrieved"]
    /\ i' = i + 1
    /\ pc' = LoopNext(example, i, num_queries)
    /\ UNCHANGED <<example, num_queries, submit_calls, log_ids, log_records,
                   errors_printed, agent_vars>>
    /\ UNCHANGED result
    /\ UNCHANGED polling_vars
    /\ UNCHANGED other_vars

\* tavily_client.search / exa.search_and_contents / exa.answer / retriever.invoke /
\* get_company_info: the provider call of query i.
Retrieve ==
    /\ pc = "retrieve"
    /\ \E ok \in BOOLEAN :
        IF CatchesProviderFailure(example)
        THEN LET res == get_company_info(i, i, ok) IN
             /\ result' = res
             /\ IF "error" \in DOMAIN res
                THEN /\ errors_printed' = errors_printed \cup {i}
                     /\ Continue("provider_failed")
                ELSE /\ qstate' = [qstate EXCEPT ![i] = "retrieved"]
                     /\ pc' = IF HasGenerateStep(example) THEN "generate" ELSE "submit"
                     /\ UNCHANGED <<i, errors_printed, agent_vars>>
        ELSE /\ UNCHANGED result
             /\ IF ok
                THEN /\ qstate' = [qstate EXCEPT ![i] = "retrieved"]
                     /\ pc' = IF HasGenerateStep(example) THEN "generate" ELSE "submit"
                     /\ UNCHANGED <<i, errors_printed, agent_vars>>
                ELSE /\ Abort("provider_failed")
                     /\ UNCHANGED errors_printed
    /\ UNCHANGED <<example, num_queries, submit_calls, log_ids, log_records>>
    /\ UNCHANGED polling_vars
    /\ UNCHANGED other_vars

\* openai_client.chat.completions.create / llm.invoke: the LLM call of query i.
Generate ==
    /\ pc = "generate"
    /\ \E ok \in BOOLEAN :
        IF ok
        THEN /\ qstate' = [qstate EXCEPT ![i] = "generated"]
             /\ pc' = "submit"
             /\ UNCHANGED <<i, agent_vars>>
        ELSE Abort("provider_failed")
    /\ UNCHANGED <<example, num_queries, submit_calls, log_ids, log_records,
                   errors_printed, result>>
    /\ UNCHANGED polling_vars
    /\ UNCHANGED other_vars

\* The agent node (call_model) and the conditional edge after it.  When the edge
\* leads to END, app.invoke returns and the loop body collects formatted_docs.
AgentNode ==
    /\ pc = "agent"
    /\ \E response \in {"ai_tool_calls", "ai_final", "raise"} :
        IF response = "raise"
        THEN Abort("provider_failed")
        ELSE IF should_continue(response) = "tools"
        THEN /\ qstate' = [qstate EXCEPT ![i] = "agent_running"]
             /\ last_message' = response
             /\ turns' = Min(turns + 1, MaxTurns)
             /\ pc' = "tools"
             /\ UNCHANGED <<i, formatted_docs>>
        ELSE IF formatted_docs > 0
        THEN /\ qstate' = [qstate EXCEPT ![i] = "generated"]
             /\ last_message' = response
             /\ turns' = Min(turns + 1, MaxTurns)
             /\ pc' = "submit"
             /\ UNCHANGED <<i, formatted_docs>>
        ELSE Continue("no_documents")
    /\ UNCHANGED <<example, num_queries, submit_calls, log_ids, log_records,
                   errors_printed, result>>
    /\ UNCHANGED polling_vars
    /\ UNCHANGED other_vars

\* The tools node: ToolNode([retrieve_web_content]) appends the tool's message, which
\* holds n documents, and the edge leads back to the agent node.
ToolsNode ==
    /\ pc = "tools"
    /\ \E n \in 0..MaxDocs :
        formatted_docs' = Min(formatted_docs + n, MaxDocs)
    /\ last_message' = "tool"
    /\ pc' = "agent"
    /\ UNCHANGED <<example, num_queries, i, qstate, submit_calls, log_ids,
                   log_records, errors_printed, turns, result>>
    /\ UNCHANGED polling_vars
    /\ UNCHANGED other_vars

\* A loop body that records the id of the query before the call has returned.
Submit_AppendsBeforeLogging ==
    /\ pc = "submit"
    /\ submit_calls' = submit_calls + 1
    /\ log_ids' = IF KeepsLogIds(example) THEN AppendLogId(log_ids, i) ELSE log_ids
    /\ \E ok \in BOOLEAN :
        IF ok
        THEN /\ log_records' = SendRecord(log_records, LogRecord(example, i))
             /\ Continue("submitted")
             /\ UNCHANGED errors_printed
        ELSE IF CatchesSubmitFailure(example)
        THEN /\ errors_printed' = errors_printed \cup {i}
             /\ Continue("submit_failed")
             /\ UNCHANGED log_records
        ELSE /\ Abort("submit_failed")
             /\ UNCHANGED <<log_records, errors_printed>>
    /\ UNCHANGED <<example, num_queries, result>>
    /\ UNCHANGED polling_vars
    /\ UNCHANGED other_vars

\* quotient.log(...) for query i, and what the loop body does with the result.
Submit ==
    /\ pc = "submit"
    /\ submit_calls' = submit_calls + 1
    /\ \E ok \in BOOLEAN :
        IF ok
        THEN /\ log_records' = SendRecord(log_records, LogRecord(example, i))
             /\ log_ids' = IF KeepsLogIds(example) THEN AppendLogId(log_ids, i)
                           ELSE log_ids
             /\ Continue("submitted")
             /\ UNCHANGED errors_printed
        ELSE IF CatchesSubmitFailure(example)
        THEN /\ errors_printed' = errors_printed \cup {i}
             /\ Continue("submit_failed")
             /\ UNCHANGED <<log_ids, log_records>>
        ELSE /\ Abort("submit_failed")
             /\ UNCHANGED <<log_ids, log_records, errors_printed>>
    /\ UNCHANGED <<example, num_queries, result>>
    /\ UNCHANGED polling_vars
    /\ UNCHANGED other_vars

\* A polling loop that is started while the batch loop is about to log a query.
StartPolling_BeforeLoopEnds ==
    /\ pc \in {"loop_done", "aborted", "submit"}
    /\ HasPollCell(example)
    /\ pc' = "poll"
    /\ p' = 1
    /\ hallucination_detections' = <<>>
    /\ doc_relevancy_detections' = <<>>
    /\ UNCHANGED <<example, num_queries, poll_log, detection, report>>
    /\ UNCHANGED submission_vars
    /\ UNCHANGED other_vars

\* The polling cell is run; it starts with two empty lists.
StartPolling ==
    /\ pc \in {"loop_done", "aborted"}
    /\ HasPollCell(example)
    /\ pc' = "poll"
    /\ p' = 1
    /\ hallucination_detections' = <<>>
    /\ doc_relevancy_detections' = <<>>
    /\ UNCHANGED <<example, num_queries, poll_log, detection, report>>
    /\ UNCHANGED submission_vars
    /\ UNCHANGED other_vars

\* A polling loop without the try/except: a poll that raises ends the cell.
Poll_Uncaught ==
    /\ pc = "poll"
    /\ p <= Len(log_ids)
    /\ \E o \in PollOutcomes :
        /\ IF o.kind = "ok"
           THEN /\ hallucination_detections' =
                        Append(hallucination_detections, o.has_hallucination)
                /\ doc_relevancy_detections' =
                        RelevancyLine(example, doc_relevancy_detections,
                                      o.log_documents).list
                /\ pc' = pc
           ELSE /\ UNCHANGED <<hallucination_detections, doc_relevancy_detections>>
                /\ pc' = "poll_aborted"
        /\ poll_log' = Append(poll_log,
                [id |-> log_ids[p], kind |-> o.kind,
                 raised |-> IF o.kind # "ok" THEN o.kind
                            ELSE RelevancyLine(example, doc_relevancy_detections,
                                               o.log_documents).raised,
                 has_hallucination |-> o.has_hallucination,
                 relevant |-> Cardinality({k \in 1..Len(o.log_documents) :
                                              o.log_documents[k] = "True"}),
                 total |-> Len(o.log_documents)])
    /\ p' = p + 1
    /\ UNCHANGED <<example, num_queries, detection, report>>
    /\ UNCHANGED submission_vars
    /\ UNCHANGED other_vars

\* One iteration of "for id in tqdm(log_ids)".
Poll ==
    /\ pc = "poll"
    /\ p <= Len(log_ids)
    /\ \E o \in PollOutcomes :
        /\ IF o.kind = "ok"
           THEN /\ hallucination_detections' =
                        Append(hallucination_detections, o.has_hallucination)
                /\ doc_relevancy_detections' =
                        RelevancyLine(example, doc_relevancy_detections,
                                      o.log_documents).list
           ELSE /\ hallucination_detections' =
                        ExceptContinueHallucination(hallucination_detections)
                /\ doc_relevancy_detections' =
                        ExceptContinueRelevancy(doc_relevancy_detections)
        /\ poll_log' = Append(poll_log,
                [id |-> log_ids[p], kind |-> o.kind,
                 raised |-> IF o.kind # "ok" THEN o.kind
                            ELSE RelevancyLine(example, doc_relevancy_detections,
                                               o.log_documents).raised,
                 has_hallucination |-> o.has_hallucination,
                 relevant |-> Cardinality({k \in 1..Len(o.log_documents) :
                                              o.log_documents[k] = "True"}),
                 total |-> Len(o.log_documents)])
    /\ p' = p + 1
    /\ UNCHANGED <<example, num_queries, pc, detection, report>>
    /\ UNCHANGED submission_vars
    /\ UNCHANGED other_vars

\* A cell that reports the number of collected detections as 'Number of results'.
Aggregate_CountsDetections ==
    /\ pc = "poll"
    /\ p > Len(log_ids)
    /\ report' = [PollingCellReport(log_ids, hallucination_detections,
                                    doc_relevancy_detections)
                  EXCEPT !.results = Len(hallucination_detections)]
    /\ pc' = "done"
    /\ UNCHANGED <<example, num_queries, p, hallucination_detections,
                   doc_relevancy_detections, poll_log, detection>>
    /\ UNCHANGED submission_vars
    /\ UNCHANGED other_vars

\* The loop is over: the three print statements.
Aggregate ==
    /\ pc = "poll"
    /\ p > Len(log_ids)
    /\ report' = PollingCellReport(log_ids, hallucination_detections,
                                   doc_relevancy_detections)
    /\ pc' = "done"
    /\ UNCHANGED <<example, num_queries, p, hallucination_detections,
                   doc_relevancy_detections, poll_log, detection>>
    /\ UNCHANGED submission_vars
    /\ UNCHANGED other_vars

Next ==
    \/ Retrieve
    \/ Generate
    \/ AgentNode
    \/ ToolsNode
    \/ Submit
    \/ StartPolling
    \/ Poll
    \/ Aggregate

Spec == Init /\ [][Next]_vars

\* The graph runtime keeps stepping a run that has a next node.
FairSpec == Spec /\ WF_vars(AgentNode) /\ WF_vars(ToolsNode)

TypeOK ==
    /\ example \in Examples
    /\ num_queries \in 0..MaxQueries
    /\ i \in 1..(num_queries + 1)
    /\ pc \in {"retrieve", "generate", "agent", "tools", "submit", "loop_done",
               "aborted", "poll", "done"}
    /\ qstate \in [1..num_queries -> QStates]
    /\ submit_calls \in 0..num_queries
    /\ log_ids \in SeqsUpTo(1..num_queries, num_queries)
    /\ Len(log_records) <= num_queries
    /\ \A k \in 1..Len(log_records) : log_records[k].user_query \in 1..num_queries
    /\ DOMAIN result \in {{"unset"}, {"answer", "sources"},
                          {"error", "company_name", "country"}}
    /\ errors_printed \subseteq 1..num_queries
    /\ last_message \in {"human", "ai_tool_calls", "ai_final", "tool"}
    /\ turns \in 0..MaxTurns
    /\ formatted_docs \in 0..MaxDocs
    /\ p \in 1..(Len(log_ids) + 1)
    /\ Len(hallucination_detections) <= Len(log_ids)
    /\ Len(doc_relevancy_detections) <= Len(log_ids)
    /\ Len(poll_log) <= Len(log_ids)
    /\ detection = NoDetection
    /\ report.printed \in BOOLEAN
    /\ NormalizationIdle
    /\ ScriptIdle

----------------------------------------------------------------------------
\* The normalization code on its own: every shape of provider response up to
\* MaxResults results, each result having any subset of the fields the code reads.

\* No notebook is running.
BatchIdle ==
    /\ example = "none"
    /\ num_queries = 0
    /\ i = 1
    /\ pc = "not_started"
    /\ qstate = <<>>
    /\ submit_calls = 0
    /\ log_ids = <<>>
    /\ log_records = <<>>
    /\ errors_printed = {}
    /\ last_message = "human"
    /\ turns = 0
    /\ formatted_docs = 0
    /\ result = NoResult
    /\ p = 1
    /\ hallucination_detections = <<>>
    /\ doc_relevancy_detections = <<>>
    /\ poll_log = <<>>
    /\ detection = NoDetection
    /\ report = [printed |-> FALSE, results |-> 0,
                 hallucination |-> NotRun, relevance |-> NotRun]

NormInit ==
    /\ BatchIdle
    /\ ScriptIdle
    /\ normalizer \in Normalizers
    /\ provider_response \in
           [results : SeqsUpTo(SUBSET ExpectedFields(normalizer), MaxResults),
            base_url : IF normalizer = "crawl_and_process_docs" THEN BOOLEAN ELSE {TRUE}]
    /\ normalized = NotNormalized

\* The code is applied to the response and returns or raises.
Returns(outcome) ==
    /\ normalized.kind = "pending"
    /\ normalized' = outcome
    /\ UNCHANGED <<normalizer, provider_response, batch_vars, script_vars>>

FormatCitations ==
    /\ normalizer = "format_citations"
    /\ Returns(format_citations(provider_response.results))

CrawlAndProcessDocs ==
    /\ normalizer = "crawl_and_process_docs"
    /\ Returns(crawl_and_process_docs(provider_response))

RetrieveWebContent ==
    /\ normalizer = "retrieve_web_content"
    /\ Returns(retrieve_web_content(provider_response.results))

ParseStringPromptValue ==
    /\ normalizer = "parse_string_prompt_value"
    /\ Returns(parse_string_prompt_value(provider_response.results))

NormNext ==
    \/ FormatCitations
    \/ CrawlAndProcessDocs
    \/ RetrieveWebContent
    \/ ParseStringPromptValue

NormSpec == NormInit /\ [][NormNext]_vars

----------------------------------------------------------------------------
\* The run script on its own: every argument list up to MaxArgs arguments.

ScriptInit ==
    /\ BatchIdle
    /\ NormalizationIdle
    /\ argv \in SeqsUpTo(ScriptArgs, MaxArgs)
    /\ cwd = "caller"
    /\ script_pc = "cd"
    /\ python_calls = <<>>
    /\ exit_code = 0

\* cd "$PROJECT_ROOT": the script goes on whether or not cd succeeded.
ChangeDir ==
    /\ script_pc = "cd"
    /\ \E ok \in BOOLEAN :
        /\ cwd' = IF ok THEN "project_root" ELSE cwd
        /\ exit_code' = IF ok THEN 0 ELSE 1
    /\ script_pc' = "if"
    /\ UNCHANGED <<argv, python_calls, batch_vars, normalization_vars>>

\* uv run python main.py with the given arguments; status is the process's exit code.
RunMain(args) ==
    \E status \in ExitCodes :
        /\ python_calls' = Append(python_calls, [args |-> args, status |-> status])
        /\ exit_code' = status
        /\ script_pc' = "end"
        /\ UNCHANGED <<argv, cwd, batch_vars, normalization_vars>>

\* then: uv run python main.py "$@"
RunMainWithArgs ==
    /\ script_pc = "if"
    /\ Len(argv) > 0
    /\ RunMain(QuotedAt(argv))

\* else: uv run python main.py
RunMainNoArgs ==
    /\ script_pc = "if"
    /\ ~(Len(argv) > 0)
    /\ RunMain(<<>>)

\* The end of the file: the script's exit code is $? of the last command.
ScriptEnd ==
    /\ script_pc = "end"
    /\ script_pc' = "exited"
    /\ UNCHANGED <<argv, cwd, python_calls, exit_code, batch_vars, normalization_vars>>

ScriptNext ==
    \/ ChangeDir
    \/ RunMainWithArgs
    \/ RunMainNoArgs
    \/ ScriptEnd

ScriptSpec == ScriptInit /\ [][ScriptNext]_vars

----------------------------------------------------------------------------
\* The polling loop on its own, one statement of the try body at a time, over
\* every list of up to MaxQueries log ids.  Poll above takes an iteration in one
\* step and lets only poll_for_detection raise; here each of the four statements
\* can raise (an attribute the detection lacks, a document that is not a dict, an
\* interrupt of the kernel, which a bare except catches as well), and the except
\* clause goes on with the next id.

PollLoopInit ==
    /\ example \in PollingExamples
    /\ num_queries \in 0..MaxQueries
    /\ i = num_queries + 1
    /\ pc = IF num_queries = 0 THEN "polled" ELSE "poll_for_detection"
    /\ qstate = [k \in 1..num_queries |-> "submitted"]
    /\ submit_calls = num_queries
    /\ log_ids = [k \in 1..num_queries |-> k]
    /\ log_records = [k \in 1..num_queries |-> LogRecord(example, k)]
    /\ errors_printed = {}
    /\ last_message = "human"
    /\ turns = 0
    /\ formatted_docs = 0
    /\ result = NoResult
    /\ p = 1
    /\ hallucination_detections = <<>>
    /\ doc_relevancy_detections = <<>>
    /\ poll_log = <<>>
    /\ detection = NoDetection
    /\ report = [printed |-> FALSE, results |-> 0,
                 hallucination |-> NotRun, relevance |-> NotRun]
    /\ NormalizationIdle
    /\ ScriptIdle

\* The iteration of log_ids[p] is over, by falling off the try body (raised is
\* "none") or through the except clause; h_len and d_len are the lengths of the
\* two lists at that moment.
EndIteration(o, raised) ==
    /\ poll_log' = Append(poll_log,
            [id |-> log_ids[p], kind |-> o.kind, raised |-> raised,
             has_hallucination |-> o.has_hallucination,
             relevant |-> RelevantCount(o.log_documents),
             total |-> Len(o.log_documents),
             h_len |-> Len(hallucination_detections'),
             d_len |-> Len(doc_relevancy_detections')])
    /\ p' = p + 1
    /\ pc' = IF p + 1 > Len(log_ids) THEN "polled" ELSE "poll_for_detection"
    /\ detection' = NoDetection

\* detection = quotient.poll_for_detection(log_id=id)
PollForDetection ==
    /\ pc = "poll_for_detection"
    /\ \E o \in PollOutcomes :
        IF o.kind = "ok"
        THEN /\ detection' = o
             /\ pc' = "has_hallucination"
             /\ UNCHANGED <<p, hallucination_detections, doc_relevancy_detections,
                            poll_log>>
        ELSE /\ UNCHANGED <<hallucination_detections, doc_relevancy_detections>>
             /\ EndIteration(o, o.kind)
    /\ UNCHANGED <<example, num_queries, report>>
    /\ UNCHANGED submission_vars
    /\ UNCHANGED other_vars

\* hallucination_detections.append(detection.has_hallucination)
AppendHasHallucination ==
    /\ pc = "has_hallucination"
    /\ \E raises \in BOOLEAN :
        IF raises
        THEN /\ UNCHANGED <<hallucination_detections, doc_relevancy_detections>>
             /\ EndIteration(detection, "has_hallucination")
        ELSE /\ hallucination_detections' =
                    Append(hallucination_detections, detection.has_hallucination)
             /\ pc' = "log_documents"
             /\ UNCHANGED <<p, doc_relevancy_detections, poll_log, detection>>
    /\ UNCHANGED <<example, num_queries, report>>
    /\ UNCHANGED submission_vars
    /\ UNCHANGED other_vars

\* docs = detection.log_documents
ReadLogDocuments ==
    /\ pc = "log_documents"
    /\ \E raises \in BOOLEAN :
        IF raises
        THEN /\ UNCHANGED <<hallucination_detections, doc_relevancy_detections>>
             /\ EndIteration(detection, "log_documents")
        ELSE /\ pc' = "relevancy"
             /\ UNCHANGED <<p, hallucination_detections, doc_relevancy_detections,
                            poll_log, detection>>
    /\ UNCHANGED <<example, num_queries, report>>
    /\ UNCHANGED submission_vars
    /\ UNCHANGED other_vars

\* doc_relevancy_detections.append(sum(...) / len(docs) if docs else None)
AppendRelevancy ==
    /\ pc = "relevancy"
    /\ \E raises \in BOOLEAN :
        LET line == RelevancyLine(example, doc_relevancy_detections,
                                  detection.log_documents) IN
        /\ doc_relevancy_detections' =
                IF raises THEN doc_relevancy_detections ELSE line.list
        /\ UNCHANGED hallucination_detections
        /\ EndIteration(detection, IF raises THEN "relevancy" ELSE line.raised)
    /\ UNCHANGED <<example, num_queries, report>>
    /\ UNCHANGED submission_vars
    /\ UNCHANGED other_vars

PollLoopNext ==
    \/ PollForDetection
    \/ AppendHasHallucination
    \/ ReadLogDocuments
    \/ AppendRelevancy

PollLoopSpec == PollLoopInit /\ [][PollLoopNext]_vars

----------------------------------------------------------------------------
\* What the run has done so far, read off qstate and poll_log.

Queries == 1..num_queries
Submitted == {k \in Queries : qstate[k] = "submitted"}
ProviderFailed == {k \in Queries : qstate[k] = "provider_failed"}
SubmitFailed == {k \in Queries : qstate[k] = "submit_failed"}
NoDocuments == {k \in Queries : qstate[k] = "no_documents"}

\* The batch loop's cell has ended, normally or by an exception.
BatchEnded == pc \in {"loop_done", "aborted", "poll", "done"}

IsOk(e) == e.kind = "ok"
OkPolls == SelectSeq(poll_log, IsOk)
FailedPolls == {k \in 1..Len(poll_log) : poll_log[k].kind # "ok"}
HasDocs(e) == e.kind = "ok" /\ e.total > 0
PollsWithDocs == SelectSeq(poll_log, HasDocs)

\* The sum of relevant/total over a sequence of polls that all have documents.
RECURSIVE SumRatios(_)
SumRatios(es) ==
    IF es = <<>> THEN Frac(0, 1)
    ELSE AddFrac(Frac(Head(es).relevant, Head(es).total), SumRatios(Tail(es)))

----------------------------------------------------------------------------
C2_FailedPollAppendsNothing ==
    [][(/\ pc = "poll"
        /\ Len(poll_log') = Len(poll_log) + 1
        /\ poll_log'[Len(poll_log')].kind # "ok")
       => (/\ hallucination_detections' = hallucination_detections
           /\ doc_relevancy_detections' = doc_relevancy_detections)]_vars

\* C2 witness: a timed-out poll and a poll that raised another error, both after a
\* detection was collected; the lists hold that one detection.
C2_Witness ==
    /\ Len(poll_log) >= 2
    /\ poll_log[1].kind = "ok"
    /\ poll_log[Len(poll_log)].kind \in {"timeout", "error"}
    /\ Len(hallucination_detections) = 1
    /\ Len(doc_relevancy_detections) = 1

\* C3: when the polling loop collected no detection (log_ids empty or every poll
\* raised), the hallucination print raises ZeroDivisionError: no rate is printed,
\* neither 0 nor NaN, and the relevance print is not reached.
C3_UndefinedRateSignalled ==
    (pc = "done" /\ Len(OkPolls) = 0) =>
        /\ report.printed
        /\ report.hallucination.kind = "ZeroDivisionError"
        /\ report.relevance.kind = "not_reached"

\* C3 witness: ids were polled, every poll raised, and the cell has ended.
C3_Witness ==
    /\ pc = "done"
    /\ Len(log_ids) >= 1
    /\ Len(poll_log) = Len(log_ids)
    /\ Len(OkPolls) = 0
    /\ report.hallucination.kind = "ZeroDivisionError"

\* C4: whenever some polled detection has documents, the polling cell prints the
\* average relevance, and it is the mean of relevant/total over the detections that
\* have at least one document (a detection with no documents is skipped).
C4_AverageSkipsZeroDocs ==
    (pc = "done" /\ Len(PollsWithDocs) > 0) =>
        /\ report.relevance.kind = "value"
        /\ report.relevance.val =
               LET s == SumRatios(PollsWithDocs)
               IN  Frac(s.num, s.den * Len(PollsWithDocs))

\* C5: whenever at least one detection was collected, the hallucination print shows
\* (number of collected detections with has_hallucination) / (number of collected
\* detections), a value in [0,1], printed as a percentage in [0,100].
C5_HallucinationRate ==
    (pc = "done" /\ Len(OkPolls) > 0) =>
        LET hits == Cardinality({k \in 1..Len(OkPolls) : OkPolls[k].has_hallucination})
            r == report.hallucination
        IN  /\ r.kind = "value"
            /\ r.val = Frac(hits, Len(OkPolls))
            /\ r.val.den > 0
            /\ 0 <= r.val.num /\ r.val.num <= r.val.den
            /\ 0 <= r.pct /\ r.pct <= 10000
            /\ 2 * (r.pct * r.val.den - r.val.num * 10000) <= r.val.den
            /\ 2 * (r.val.num * 10000 - r.pct * r.val.den) <= r.val.den

\* C5 witness: a timed-out poll next to a hallucinated detection, rate 100%.
C5_Witness ==
    /\ pc = "done"
    /\ Len(poll_log) >= 2
    /\ Cardinality(FailedPolls) >= 1
    /\ Len(OkPolls) >= 1
    /\ report.hallucination.kind = "value"
    /\ report.hallucination.pct = 10000

\* C6: every run of the agent graph ends: once the agent node is entered, the run
\* eventually leaves the agent/tools loop.
C6_AgentLoopTerminates ==
    [](pc = "agent" => <>(pc \notin {"agent", "tools"}))

\* C7: a quotient.log call that raises for one query does not abort the batch: when
\* the batch loop has ended, every query after the failed one has been processed.
\* (The failure is always reported: by the loop's print where it is caught, by the
\* interpreter's traceback where it is not.)
C7_SubmitFailureDoesNotAbort ==
    BatchEnded =>
        \A k \in SubmitFailed :
            \A j \in Queries : j > k => qstate[j] \in Finished

\* C8: a provider call (search or LLM) that raises for one query is caught for that
\* query: when the batch loop has ended, every query after the failed one has been
\* processed.
C8_ProviderFailureDoesNotAbort ==
    BatchEnded =>
        \A k \in ProviderFailed :
            \A j \in Queries : j > k => qstate[j] \in Finished

\* C9: in the notebooks that keep log_ids, its length is the number of quotient.log
\* calls that have returned so far, and no id occurs twice in it.
C9_LogIdsMatchSuccessfulSubmits ==
    KeepsLogIds(example) =>
        /\ Len(log_ids) = Cardinality(Submitted)
        /\ \A a, b \in 1..Len(log_ids) : log_ids[a] = log_ids[b] => a = b

\* C9 witness: a batch has ended in which one submission failed and one succeeded.
C9_Witness ==
    /\ pc = "loop_done"
    /\ SubmitFailed # {}
    /\ Submitted # {}
    /\ Len(log_ids) = Cardinality(Submitted)

\* C10: queries are processed one at a time: a query is started only when every
\* query before it in the batch is finished, so at most one query is in progress.
C10_StrictlySequential ==
    /\ \A j \in Queries : qstate[j] # "pending" =>
            \A k \in Queries : k < j => qstate[k] \in Finished
    /\ Cardinality({k \in Queries : qstate[k] \in InProgress}) <= 1

\* C10 witness: the second query's retrieval has returned and the first is submitted.
C10_Witness ==
    /\ num_queries >= 2
    /\ qstate[1] = "submitted"
    /\ qstate[2] = "retrieved"

\* The url of a normalized document, whichever key the code stores it under.
UrlOf(doc) == IF "source" \in DOMAIN doc THEN doc.source ELSE doc.url

\* The literals the code substitutes for a missing url.
UrlSentinels == {"No URL", ""}

\* C11: for every provider result that lacks the url field, normalization does not
\* raise because of the missing url, and the document it makes from that result has
\* a fixed sentinel string of the code as its source/url.
C11_MissingUrlGetsSentinel ==
    normalized.kind # "pending" =>
        \A k \in 1..Len(provider_response.results) :
            "url" \notin provider_response.results[k] =>
                /\ ~(normalized.kind = "KeyError" /\ normalized.key = "url"
                                                  /\ normalized.at = k)
                /\ normalized.kind = "documents" =>
                       \E str \in UrlSentinels : UrlOf(normalized.docs[k]) = Literal(str)

\* C12: whatever subset of the expected fields a result lacks, normalization returns
\* one document per result (no result is dropped, nothing is raised), and in each
\* document as many fields hold a default of the code as the result lacks fields.
C12_MissingFieldsGetDefaults ==
    (normalized.kind # "pending" /\ provider_response.base_url) =>
        /\ normalized.kind = "documents"
        /\ Len(normalized.docs) = Len(provider_response.results)
        /\ \A k \in 1..Len(normalized.docs) :
               Cardinality({g \in DOMAIN normalized.docs[k] :
                               normalized.docs[k][g].from = "code"})
                   = Cardinality(ExpectedFields(normalizer) \ provider_response.results[k])

\* C13: get_company_info never raises and returns either {answer, sources} or a
\* failure record, never a mix of the two; and the failure record it hands the
\* caller when the provider call failed carries the query and the options of that
\* call.
C13_FailureCarriesQueryAndOptions ==
    result # NoResult =>
        /\ \/ DOMAIN result = {"answer", "sources"}
           \/ "error" \in DOMAIN result /\ DOMAIN result \cap {"answer", "sources"} = {}
        /\ "error" \in DOMAIN result => {"query", "options"} \subseteq DOMAIN result

\* Every id of log_ids has been polled once, in order.
EveryIdPolled ==
    /\ Len(poll_log) = Len(log_ids)
    /\ \A k \in 1..Len(log_ids) : poll_log[k].id = log_ids[k]

\* C15 as claimed: when the polling cell has ended, every submitted id has been
\* polled and its poll ended with its one Detection or with a timeout.
C15_PollEndsWithDetectionOrTimeout ==
    pc = "done" =>
        /\ EveryIdPolled
        /\ \A k \in 1..Len(poll_log) : poll_log[k].kind \in {"ok", "timeout"}

\* C15 as amended: once the polling cell runs, every step of it ends the poll of
\* the next id of log_ids and moves the loop one id forward, or, after the last id,
\* reaches the end of the cell; nothing else happens to a running cell, so it ends
\* after Len(log_ids) polls.  By then every id has been polled exactly once, its
\* poll having ended with one Detection or with a raised error, a timeout or
\* another failure, and no id has more than one Detection collected.
C15_EveryPollEnds ==
    [][/\ pc = "poll" =>
            \/ /\ pc' = "poll"
               /\ p <= Len(log_ids)
               /\ p' = p + 1
               /\ Len(poll_log') = p
               /\ poll_log'[p].id = log_ids[p]
            \/ /\ pc' = "done"
               /\ p = Len(log_ids) + 1
       /\ pc' = "done" =>
            /\ EveryIdPolled'
            /\ \A k \in 1..Len(poll_log') :
                   poll_log'[k].kind \in {"ok", "timeout", "error"}
            /\ Len(OkPolls') = Len(hallucination_detections')
            /\ Len(OkPolls') <= Len(log_ids')]_vars

\* C15 witness: the cell has ended after a poll that returned a Detection and a poll
\* that raised an error other than a timeout.
C15_Witness ==
    /\ pc = "done"
    /\ Len(log_ids) >= 2
    /\ EveryIdPolled
    /\ \E k \in 1..Len(poll_log) : poll_log[k].kind = "ok"
    /\ \E k \in 1..Len(poll_log) : poll_log[k].kind = "error"

\* The calls of the batch loop cell that are still to be made.
LoopSteps == {"retrieve", "generate", "agent", "tools", "submit"}

\* C16: a quotient.log call that returns lets the loop go on at once with the next
\* query (or end): the id it returned is kept, and no detection of that record, nor
\* of any earlier one, has been fetched or waited for; while the loop runs no
\* detection has been polled at all.
C16_SubmitDoesNotWait ==
    [][/\ (pc = "submit" /\ Len(log_records') = Len(log_records) + 1) =>
            /\ i' = i + 1
            /\ pc' = IF i < num_queries THEN FirstStep(example) ELSE "loop_done"
            /\ KeepsLogIds(example) => log_ids' = Append(log_ids, i)
            /\ poll_log' = <<>>
       /\ pc' \in LoopSteps => poll_log' = <<>>]_vars

\* C16 witness: the answer of the second query has been generated while the first
\* query's record is submitted and no detection has been fetched.
C16_Witness ==
    /\ example = "exa_oai"
    /\ num_queries >= 2
    /\ log_ids = <<1>>
    /\ qstate[2] = "generated"
    /\ poll_log = <<>>

\* C17: each query of the batch has at most one quotient.log call, exactly one
\* record when it was submitted successfully, and a record that was sent is never
\* changed by a later step (later queries, polling, aggregation).
C17_SubmittedOnceAndNeverChanged ==
    [][/\ Len(log_records') >= Len(log_records)
       /\ \A k \in 1..Len(log_records) : log_records'[k] = log_records[k]
       /\ submit_calls' = Cardinality(Submitted' \cup SubmitFailed')
       /\ \A q \in Queries :
              Cardinality({k \in 1..Len(log_records') : log_records'[k].user_query = q})
                  = IF q \in Submitted' THEN 1 ELSE 0]_vars

\* C17 witness: two records were sent and the polling cell has ended.
C17_Witness ==
    /\ pc = "done"
    /\ Len(log_records) = 2
    /\ log_records[1].user_query = 1
    /\ log_records[2].user_query = 2
    /\ report.printed

\* The state of a query once its answer exists: the provider's response carries the
\* answer in tavily, exa and linkup; an LLM call or the agent's last message makes
\* it in the others.
AnswerReady(e) ==
    IF HasGenerateStep(e) \/ e = "agent" THEN "generated" ELSE "retrieved"

\* The step gives query i its answer: an LLM call returned it, or the agent's model
\* gave its final message (with documents collected, or with none).
AnswerGenerated ==
    /\ i \in Queries
    /\ qstate'[i] \in {"generated", "no_documents"}
    /\ qstate[i] \notin {"generated", "no_documents"}

\* The rest of the order: quotient.log is called only for a query whose answer
\* exists, an id is polled only after the quotient.log call that returned it, and
\* the aggregates are printed only after every id of log_ids has been polled.
SubmitPollAggregateInOrder ==
    /\ submit_calls' # submit_calls =>
           /\ pc = "submit"
           /\ qstate[i] = AnswerReady(example)
    /\ Len(poll_log') > Len(poll_log) =>
           /\ pc = "poll"
           /\ qstate[poll_log'[Len(poll_log')].id] = "submitted"
           /\ \E k \in 1..Len(log_ids) : log_ids[k] = poll_log'[Len(poll_log')].id
    /\ (report'.printed /\ ~report.printed) =>
           /\ Len(poll_log) = Len(log_ids)
           /\ \A q \in Queries : qstate[q] \notin InProgress

\* C18 as claimed: the steps of a query happen in the order retrieve, generate,
\* submit, poll, aggregate; in particular every answer is generated only after the
\* query's retrieval has returned.
C18_AnswerOnlyAfterRetrieval ==
    [][/\ AnswerGenerated => qstate[i] \in {"retrieved", "agent_running"}
       /\ SubmitPollAggregateInOrder]_vars

\* C18 as amended: every answer that is submitted was generated after the query's
\* retrieval returned, and submit, poll and aggregate follow in that order; the one
\* answer made without retrieval is the agent's, when its model answers without
\* calling the tool, and that answer has no documents and is not submitted.
C18_StepOrder ==
    [][/\ AnswerGenerated =>
              \/ qstate[i] \in {"retrieved", "agent_running"}
              \/ /\ example = "agent"
                 /\ qstate[i] = "pending"
                 /\ qstate'[i] = "no_documents"
                 /\ submit_calls' = submit_calls
                 /\ log_records' = log_records
       /\ (submit_calls' # submit_calls /\ example = "agent") => formatted_docs > 0
       /\ SubmitPollAggregateInOrder]_vars

\* C18 witness: both queries of an exa + OpenAI batch went through retrieval,
\* generation, submission and polling, and the aggregates are printed.
C18_Witness ==
    /\ example = "exa_oai"
    /\ num_queries = 2
    /\ Submitted = {1, 2}
    /\ Len(poll_log) = 2
    /\ report.printed
    /\ report.hallucination.kind = "value"

\* C19: the script starts main.py exactly once, with the arguments it was given,
\* each unchanged, when there is at least one, and with no argument otherwise; once
\* main.py has ended, the script's exit code is that process's exit code.
C19_ScriptRunsMainOnce ==
    /\ script_pc \in {"cd", "if"} => python_calls = <<>>
    /\ script_pc \in {"end", "exited"} =>
        /\ Len(python_calls) = 1
        /\ python_calls[1].args = IF Len(argv) > 0 THEN argv ELSE <<>>
        /\ exit_code = python_calls[1].status

\* C19 witness: two arguments, one with a space in it and one empty, cd failed,
\* main.py ended with exit code 2 and the script has ended.
C19_Witness ==
    /\ script_pc = "exited"
    /\ argv = << <<"w", "w">>, <<>> >>
    /\ cwd = "caller"
    /\ Len(python_calls) = 1
    /\ exit_code = 2

\* C20: polling starts only when the batch loop has ended; the ids are polled one
\* at a time in the order of log_ids, each once; every polled id was returned by a
\* quotient.log call that succeeded, so no query whose submission failed is polled.
C20_PollingOrder ==
    /\ pc \in {"poll", "done"} => \A q \in Queries : qstate[q] \notin InProgress
    /\ poll_log # <<>> => pc \in {"poll", "done"}
    /\ Len(poll_log) <= Len(log_ids)
    /\ \A k \in 1..Len(poll_log) :
        /\ poll_log[k].id = log_ids[k]
        /\ qstate[poll_log[k].id] = "submitted"
        /\ \A j \in 1..Len(poll_log) : poll_log[j].id = poll_log[k].id => j = k
    /\ pc = "poll" => Len(poll_log) = p - 1
    /\ pc = "done" => Len(poll_log) = Len(log_ids)

\* C20 witness: in the agent notebook one submission failed and one succeeded; the
\* polling cell has ended and polled the one id of log_ids.
C20_Witness ==
    /\ example = "agent"
    /\ pc = "done"
    /\ SubmitFailed # {}
    /\ Len(log_ids) = 1
    /\ Len(poll_log) = 1
    /\ poll_log[1].id \in Submitted

----------------------------------------------------------------------------
\* C21.  In the agent graph the tools node runs only right after an agent step
\* whose response carries a tool call; every tools step is followed by an agent
\* step that sees the tool's message appended; and a run reaches END only right
\* after an agent step whose response has no tool calls, so that the last message
\* of the final state is a model response without tool calls.  (A run that an
\* exception ends has no final state.)
InGraph == pc \in {"agent", "tools"}

C21_AgentGraphOrder ==
    [][ /\ (pc' = "tools" /\ pc # "tools") =>
            (pc = "agent" /\ last_message' = "ai_tool_calls")
        /\ pc = "tools" =>
            /\ pc' = "agent"
            /\ last_message' = "tool"
            /\ formatted_docs' >= formatted_docs
            /\ i' = i
        /\ (InGraph /\ pc' = "submit") =>
            (pc = "agent" /\ last_message' = "ai_final")
        /\ (InGraph /\ i' # i) =>
            (pc = "agent" /\ i \in Queries /\ qstate'[i] = "no_documents")
      ]_vars

C21_Witness ==
    /\ example = "agent"
    /\ pc = "submit"
    /\ last_message = "ai_final"
    /\ turns >= 2
    /\ formatted_docs > 0

----------------------------------------------------------------------------
\* C22.  As claimed: a detection without documents is not handled the same way in
\* every example -- at least one polling loop guards the division by len(docs)
\* with a conditional and at least one other raises a division error; so whichever
\* example is run, some other example handles such a detection differently.
ZeroDocsOutcome(e) == RelevancyLine(e, <<>>, <<>>).raised

C22_ZeroDocsNotUniform ==
    /\ \E e \in PollingExamples : ZeroDocsOutcome(e) = "none"
    /\ \E e \in PollingExamples : ZeroDocsOutcome(e) = "ZeroDivisionError"
    /\ example \in PollingExamples =>
            \E e \in PollingExamples : ZeroDocsOutcome(e) # ZeroDocsOutcome(example)

\* C22, amended.  Every polling loop guards the division the same way: whatever
\* the example, the iteration of a detection without documents raises no division
\* error and appends None to doc_relevancy_detections (and has_hallucination to
\* hallucination_detections).
C22_ZeroDocsGuardedEverywhere ==
    [][ (/\ Len(poll_log') = Len(poll_log) + 1
         /\ poll_log'[Len(poll_log')].kind = "ok"
         /\ poll_log'[Len(poll_log')].total = 0) =>
            /\ poll_log'[Len(poll_log')].raised = "none"
            /\ doc_relevancy_detections' = Append(doc_relevancy_detections, PyNone)
            /\ Len(hallucination_detections') = Len(hallucination_detections) + 1
      ]_vars

C22_Witness ==
    /\ example = "linkup"
    /\ Len(poll_log) >= 2
    /\ poll_log[Len(poll_log)].kind = "ok"
    /\ poll_log[Len(poll_log)].total = 0
    /\ Len(doc_relevancy_detections) >= 1
    /\ doc_relevancy_detections[Len(doc_relevancy_detections)] = PyNone

----------------------------------------------------------------------------
\* C23.  In the Linkup company loop, once the cell has ended, a company whose
\* lookup returned an error record has not been submitted, has no id in log_ids,
\* had its error printed, and every company after it in the list was looked up.
LookedUp(k) == qstate[k] # "pending"

SubmittedIds == {log_records[k].user_query : k \in 1..Len(log_records)}

C23_ErrorRecordSkippedRestLookedUp ==
    (example = "linkup" /\ BatchEnded) =>
        \A k \in ProviderFailed :
            /\ k \notin SubmittedIds
            /\ \A n \in 1..Len(log_ids) : log_ids[n] # k
            /\ k \in errors_printed
            /\ \A j \in Queries : j > k => LookedUp(j)

----------------------------------------------------------------------------
\* C24.  After the polling loop, whatever statement of an iteration raised,
\* hallucination_detections and doc_relevancy_detections have the same length and
\* their k-th entries come from the same detection: every iteration left the two
\* lists equally long.
C24_ListsStayAligned ==
    pc = "polled" =>
        /\ Len(hallucination_detections) = Len(doc_relevancy_detections)
        /\ \A k \in 1..Len(poll_log) : poll_log[k].h_len = poll_log[k].d_len

----------------------------------------------------------------------------
\* C25.  When an uncaught failure aborts the submission loop in the iteration of
\* the k-th query, the step leaves log_ids as it was, and log_ids holds exactly the
\* ids of the queries submitted successfully before the k-th, in order; it holds no
\* id of the query that failed.
SubmittedBefore(q, n) ==
    SelectSeq([k \in 1..(n - 1) |-> k], LAMBDA k : q[k] = "submitted")

C25_AbortKeepsLogIds ==
    [][ (pc # "aborted" /\ pc' = "aborted" /\ KeepsLogIds(example)) =>
            /\ log_ids' = log_ids
            /\ i' = i
            /\ qstate'[i] \in {"provider_failed", "submit_failed"}
            /\ log_ids' = SubmittedBefore(qstate', i')
            /\ \A n \in 1..Len(log_ids') : log_ids'[n] # i
      ]_vars

C25_Witness ==
    /\ example = "tavily"
    /\ pc = "aborted"
    /\ i = 3
    /\ qstate[i] = "submit_failed"
    /\ log_ids = <<1, 2>>

----------------------------------------------------------------------------
\* C26.  The 'Number of results' printed after polling is len(log_ids), the number
\* of successful submissions; it is never smaller than the number of detections in
\* the denominator of the hallucination rate, and it is larger whenever at least
\* one poll failed.
C26_NumberOfResults ==
    pc = "done" =>
        /\ report.printed
        /\ report.results = Len(log_ids)
        /\ report.results = Cardinality(Submitted)
        /\ report.results >= Len(hallucination_detections)
        /\ FailedPolls # {} => report.results > Len(hallucination_detections)

C26_Witness ==
    /\ pc = "done"
    /\ FailedPolls # {}
    /\ Len(hallucination_detections) >= 1
    /\ report.hallucination.kind = "value"
    /\ report.results > Len(hallucination_detections)

====
